---- MODULE Spec2Model ----
(***************************************************************************)
(* Code-Connect (src/codeconnect/app.py): the friend-suggestion engine and *)
(* the relationship store it reads (users, tags, friends, friend requests, *)
(* dismissed suggestions).                                                 *)
(*                                                                         *)
(* Strings are sequences of one-character strings, so that ' '.join, the   *)
(* lower-casing and the token pattern of TfidfVectorizer are computed.     *)
(* Floating-point numbers are exact: idf values are integers of thousandths *)
(* and a cosine is kept as the integers it is the quotient and root of.    *)
(***************************************************************************)
EXTENDS Integers, Sequences, FiniteSets, TLC

\* ------------------------------------------------------------------ bounds

\* Largest number of FriendRequest rows the store specification creates.
MaxRequests == 1
\* Number of candidates beside the requester in the ranking specification.
MaxPool == 4

\* ------------------------------------------------------------------ strings

\* ' '.join(tags)
RECURSIVE JoinSpace(_)
JoinSpace(ts) ==
    IF ts = <<>> THEN <<>>
    ELSE IF Len(ts) = 1 THEN Head(ts)
    ELSE Head(ts) \o <<" ">> \o JoinSpace(Tail(ts))

\* str.lower() (TfidfVectorizer lowercase=True)
Lower(c) ==
    CASE c = "G" -> "g"
      [] c = "P" -> "p"
      [] OTHER -> c

\* \w of the token pattern
IsWordChar(c) == c \notin {" ", "+", "-"}

\* re.findall(r"(?u)\b\w\w+\b", s.lower()): the maximal runs of word
\* characters that have two characters or more. cur is the run being read.
RECURSIVE Scan(_, _)
Scan(s, cur) ==
    IF s = <<>>
    THEN IF Len(cur) >= 2 THEN <<cur>> ELSE <<>>
    ELSE IF IsWordChar(Head(s))
         THEN Scan(Tail(s), Append(cur, Lower(Head(s))))
         ELSE (IF Len(cur) >= 2 THEN <<cur>> ELSE <<>>) \o Scan(Tail(s), <<>>)

Tokenize(s) == Scan(s, <<>>)

\* ------------------------------------------------------------------ numbers

Min(a, b) == IF a <= b THEN a ELSE b

Range(s) == {s[i] : i \in 1..Len(s)}

\* a function on 1..n as the sequence of its values (a list, a matrix row)
List(f) == f \o <<>>

RECURSIVE SumSeq(_)
SumSeq(s) == IF s = <<>> THEN 0 ELSE Head(s) + SumSeq(Tail(s))

Dot(x, y) == SumSeq(List([i \in 1..Len(x) |-> x[i] * y[i]]))

\* Natural numbers beyond 2^31: the digits in base Base, lowest first, with no
\* leading zero digit (zero is <<>>). Products of similarities need them.
Base == 100 * 100

RECURSIVE Big(_)
Big(n) == IF n = 0 THEN <<>> ELSE <<n % Base>> \o Big(n \div Base)

RECURSIVE BigAdd(_, _, _)
BigAdd(a, b, carry) ==
    IF a = <<>> /\ b = <<>> THEN Big(carry)
    ELSE LET x == IF a = <<>> THEN 0 ELSE Head(a)
             y == IF b = <<>> THEN 0 ELSE Head(b)
             t == x + y + carry
         IN  <<t % Base>> \o BigAdd(IF a = <<>> THEN a ELSE Tail(a),
                                    IF b = <<>> THEN b ELSE Tail(b), t \div Base)

\* a times the digit d
RECURSIVE BigTimesDigit(_, _, _)
BigTimesDigit(a, d, carry) ==
    IF a = <<>> THEN Big(carry)
    ELSE LET t == Head(a) * d + carry
         IN  <<t % Base>> \o BigTimesDigit(Tail(a), d, t \div Base)

RECURSIVE BigTimes(_, _)
BigTimes(a, b) ==
    IF a = <<>> \/ b = <<>> THEN <<>>
    ELSE BigAdd(BigTimesDigit(a, Head(b), 0), <<0>> \o BigTimes(a, Tail(b)), 0)

\* drops the zero digits a product by zero leaves at the top
RECURSIVE BigTrim(_)
BigTrim(a) ==
    IF a = <<>> THEN a
    ELSE IF a[Len(a)] = 0 THEN BigTrim(SubSeq(a, 1, Len(a) - 1)) ELSE a

\* a >= b for trimmed a and b of one length, compared from the top digit
RECURSIVE BigGeqFrom(_, _, _)
BigGeqFrom(a, b, i) ==
    IF i = 0 THEN TRUE
    ELSE IF a[i] # b[i] THEN a[i] > b[i]
    ELSE BigGeqFrom(a, b, i - 1)

BigGeq(a, b) ==
    LET x == BigTrim(a)
        y == BigTrim(b)
    IN  IF Len(x) # Len(y) THEN Len(x) > Len(y) ELSE BigGeqFrom(x, y, Len(x))

\* ------------------------------------------------------------------ TF-IDF

\* 1000 * ln(k) for k = 1..10, rounded
LnMilli == <<0, 693, 1099, 1386, 1609, 1792, 1946, 2079, 2197, 2303>>

RECURSIVE SetToSeq(_)
SetToSeq(S) ==
    IF S = {} THEN <<>>
    ELSE LET x == CHOOSE y \in S : TRUE IN <<x>> \o SetToSeq(S \ {x})

\* the analyzer of TfidfVectorizer applied to each document
Analyze(tag_strings) ==
    List([i \in 1..Len(tag_strings) |-> Tokenize(tag_strings[i])])

\* vocabulary_ of the fitted vectorizer
Vocabulary(docs) == UNION {Range(docs[i]) : i \in 1..Len(docs)}

\* term frequency: raw count of term t in a document
TermCount(t, doc) == Cardinality({i \in 1..Len(doc) : doc[i] = t})

\* document frequency of term t
DocFreq(t, docs) == Cardinality({i \in 1..Len(docs) : t \in Range(docs[i])})

\* smooth idf: ln((1 + n) / (1 + df)) + 1, in thousandths
Idf(t, docs) == 1000 + LnMilli[1 + Len(docs)] - LnMilli[1 + DocFreq(t, docs)]

\* A row scaled to unit length (norm='l2') is kept as the integer row v of
\* tf * idf weights it is the direction of: the unit vector is v / |v|, and
\* the zero row stays zero. Scaling a unit vector again changes nothing.
Normalize(v) == v

\* TfidfVectorizer().fit_transform(tag_strings): raises ValueError ("empty
\* vocabulary") when no document has a token, else one l2-normalised row of
\* tf * idf weights per document.
FitTransform(tag_strings) ==
    LET docs  == Analyze(tag_strings)
        vocab == SetToSeq(Vocabulary(docs))
        idf   == List([j \in 1..Len(vocab) |-> Idf(vocab[j], docs)])
    IN  IF vocab = <<>>
        THEN [raised |-> TRUE, matrix |-> <<>>]
        ELSE [raised |-> FALSE,
              matrix |-> List([d \in 1..Len(docs) |->
                  Normalize(List([j \in 1..Len(vocab) |->
                      TermCount(vocab[j], docs[d]) * idf[j]]))])]

\* n^2, as a big number
BigSquare(n) == BigTimes(Big(n), Big(n))

\* The cosine of two rows x and y is dot / sqrt(xx * yy), a number >= 0. It
\* is kept as its square num / den, two big numbers; sklearn's normalize()
\* divides a zero row by 1, so its cosine is 0.
Cosine(x, y) ==
    LET xx == Dot(x, x)
        yy == Dot(y, y)
    IN  [num |-> BigSquare(Dot(x, y)),
         den |-> BigTimes(Big(IF xx = 0 THEN 1 ELSE xx), Big(IF yy = 0 THEN 1 ELSE yy))]

\* cosine_similarity(X[0:1], X[1:])[0]
CosineSimilarity(matrix) ==
    LET x == Normalize(matrix[1])
    IN  List([i \in 1..(Len(matrix) - 1) |-> Cosine(x, Normalize(matrix[i + 1]))])

\* s >= t for two cosines
SimGeq(s, t) == BigGeq(BigTimes(s.num, t.den), BigTimes(t.num, s.den))

\* s >= p / q for a cosine s and a fraction p / q >= 0
SimAtLeast(s, p, q) ==
    BigGeq(BigTimes(Big(q * q), s.num), BigTimes(Big(p * p), s.den))

\* ------------------------------------------------------------------ store

VARIABLES
    users,      \* ids of the rows of table user
    tags,       \* User.tags of every id: the JSON text, as the value it encodes
    friends,    \* rows <<user_id, friend_id>> of table friends
    requests,   \* rows of table friend_request, by id
    dismissed,  \* rows <<user_id, suggested_user_id>> of dismissed_suggestions
    partners,   \* rows <<user_id, partner_id>> of table accountability_partners
    goals,      \* rows of table goal, by id
    points,     \* User.points of every id
    resp,       \* the response to the latest request
    threads     \* the requests in progress: handler, position and locals of
                \* each thread of the server

vars == <<users, tags, friends, requests, dismissed, partners, goals, points,
          resp, threads>>

store == <<users, tags, friends, requests, dismissed, partners, goals, points>>

\* characters and tags the users type
Go == <<"g", "o">>
GoUpper == <<"G", "o">>
Py == <<"p", "y">>
Js == <<"j", "s">>
Qt == <<"q", "t">>
C == <<"c">>

\* json.dumps(tags) of a list of strings, read back by json.loads
JsonList(items) == [kind |-> "list", items |-> items]

\* json.dumps of a string and of a number (given by its digits):
\* update_profile stores whatever JSON value the request carries
JsonString(chars) == [kind |-> "string", items |-> <<chars>>]
JsonNumber(digits) == [kind |-> "number", items |-> <<digits>>]

\* the tag lists update_profile is called with in the store specification
TagChoices == {JsonList(<<>>), JsonList(<<Go>>)}

UserName(u) == <<"name", u>>
UserEmail(u) == <<"email", u>>

\* ------------------------------------------------------------------ User

\* User.is_friend
is_friend(self, user) == <<self, user>> \in friends

\* bug: the dismissal is looked up in both directions
HasDismissedEitherWay(self, user) ==
    <<self, user>> \in dismissed \/ <<user, self>> \in dismissed

\* User.has_dismissed_suggestion
has_dismissed_suggestion(self, user) == <<self, user>> \in dismissed

\* FriendRequest.query.filter_by(sender_id, receiver_id, status='pending').first()
PendingRequest(sender_id, receiver_id) ==
    \E i \in DOMAIN requests :
        /\ requests[i].sender_id = sender_id
        /\ requests[i].receiver_id = receiver_id
        /\ requests[i].status = "pending"

\* ------------------------------------------------------------------ get_friend_suggestions

\* a set of ids as the sequence of its elements in ascending order
RECURSIVE Ascending(_)
Ascending(S) ==
    IF S = {} THEN <<>>
    ELSE LET m == CHOOSE x \in S : \A y \in S : x <= y
         IN  <<m>> \o Ascending(S \ {m})

\* bug: the filter on User.id is missing
AllUsersWithSelf(current_user) == Ascending(users)

\* User.query.filter(User.id != current_user.id).all(): rows in rowid order
AllUsers(current_user) == Ascending(users \ {current_user})

\* bug: only the requests the requester sent are looked up
ExcludedSentOnly(current_user, user) ==
    \/ is_friend(current_user, user)
    \/ PendingRequest(current_user, user)
    \/ has_dismissed_suggestion(current_user, user)

\* the condition under "if not (...)" of the loop over all_users
Excluded(current_user, user) ==
    \/ is_friend(current_user, user)
    \/ PendingRequest(current_user, user)
    \/ PendingRequest(user, current_user)
    \/ has_dismissed_suggestion(current_user, user)

NonFriends(current_user) ==
    SelectSeq(AllUsers(current_user), LAMBDA user : ~Excluded(current_user, user))

\* the characters of a string, each as a string of its own
Chars(s) == List([i \in 1..Len(s) |-> <<s[i]>>])

\* ' '.join(json.loads(user.tags)): a string is joined character by
\* character, and a value that is no list and no string raises TypeError
TagString(u) ==
    IF tags[u].kind = "list" THEN [raised |-> FALSE, str |-> JoinSpace(tags[u].items)]
    ELSE IF tags[u].kind = "string"
    THEN [raised |-> FALSE, str |-> JoinSpace(Chars(tags[u].items[1]))]
    ELSE [raised |-> TRUE, str |-> <<>>]

\* bug: the vectorizer is given the requester and all other users, not the pool
TagVectorsOfAllUsers(us) ==
    LET all  == <<us[1]>> \o Ascending(users \ {us[1]})
        strs == List([i \in 1..Len(all) |-> TagString(all[i])])
    IN  IF \E i \in 1..Len(all) : strs[i].raised
        THEN [raised |-> TRUE, matrix |-> <<>>]
        ELSE FitTransform(List([i \in 1..Len(all) |-> strs[i].str]))

\* get_tag_vectors(users)
get_tag_vectors(us) ==
    LET strs == List([i \in 1..Len(us) |-> TagString(us[i])])
    IN  IF \E i \in 1..Len(us) : strs[i].raised
        THEN [raised |-> TRUE, matrix |-> <<>>]
        ELSE FitTransform(List([i \in 1..Len(us) |-> strs[i].str]))

\* SIMILARITY_THRESHOLD = 0.3, as the fraction 3 / 10
SIMILARITY_THRESHOLD == <<3, 10>>

\* bug: > in place of >=
AboveThreshold(similarity) ==
    ~BigGeq(BigTimes(Big(SIMILARITY_THRESHOLD[1] * SIMILARITY_THRESHOLD[1]), similarity.den),
            BigTimes(Big(SIMILARITY_THRESHOLD[2] * SIMILARITY_THRESHOLD[2]), similarity.num))

\* similarities[idx] >= SIMILARITY_THRESHOLD
MeetsThreshold(similarity) ==
    SimAtLeast(similarity, SIMILARITY_THRESHOLD[1], SIMILARITY_THRESHOLD[2])

\* the loop that builds suggestions from enumerate(non_friends)
RECURSIVE BuildSuggestions(_, _, _)
BuildSuggestions(non_friends, similarities, idx) ==
    IF idx > Len(non_friends) THEN <<>>
    ELSE (IF MeetsThreshold(similarities[idx])
          THEN <<[id |-> non_friends[idx],
                  name |-> UserName(non_friends[idx]),
                  email |-> UserEmail(non_friends[idx]),
                  similarity |-> similarities[idx]]>>
          ELSE <<>>)
         \o BuildSuggestions(non_friends, similarities, idx + 1)

\* bug: x goes before the elements of equal key
RECURSIVE InsertBeforeEqual(_, _)
InsertBeforeEqual(x, sorted) ==
    IF sorted = <<>> THEN <<x>>
    ELSE IF SimGeq(x.similarity, Head(sorted).similarity)
         THEN <<x>> \o sorted
         ELSE <<Head(sorted)>> \o InsertBeforeEqual(x, Tail(sorted))

\* x goes after every element whose key is not smaller: the order of equal
\* keys is the order of insertion
RECURSIVE InsertDescending(_, _)
InsertDescending(x, sorted) ==
    IF sorted = <<>> THEN <<x>>
    ELSE IF SimGeq(Head(sorted).similarity, x.similarity)
         THEN <<Head(sorted)>> \o InsertDescending(x, Tail(sorted))
         ELSE <<x>> \o sorted

\* x goes after every element whose key is not larger
RECURSIVE InsertAscending(_, _)
InsertAscending(x, sorted) ==
    IF sorted = <<>> THEN <<x>>
    ELSE IF SimGeq(x.similarity, Head(sorted).similarity)
         THEN <<Head(sorted)>> \o InsertAscending(x, Tail(sorted))
         ELSE <<x>> \o sorted

\* bug: reverse=True is missing
RECURSIVE SortAscending(_, _)
SortAscending(todo, sorted) ==
    IF todo = <<>> THEN sorted
    ELSE SortAscending(Tail(todo), InsertAscending(Head(todo), sorted))

\* suggestions.sort(key=lambda x: x['similarity'], reverse=True): stable
RECURSIVE SortDescending(_, _)
SortDescending(todo, sorted) ==
    IF todo = <<>> THEN sorted
    ELSE SortDescending(Tail(todo), InsertDescending(Head(todo), sorted))

\* bug: one entry too many
Top4(suggestions) == SubSeq(suggestions, 1, Min(4, Len(suggestions)))

\* suggestions[:3]
Top3(suggestions) == SubSeq(suggestions, 1, Min(3, Len(suggestions)))

\* bug: the score stays in the record
KeepSimilarity(suggestion) == suggestion

\* suggestion.pop('similarity', None)
PopSimilarity(suggestion) ==
    [id |-> suggestion.id, name |-> suggestion.name, email |-> suggestion.email]

Response(op, user, code, body, non_friends, similarities, vectorized) ==
    [op |-> op, user |-> user, code |-> code, body |-> body,
     non_friends |-> non_friends, similarities |-> similarities,
     vectorized |-> vectorized]

Plain(op, code) == Response(op, 0, code, <<>>, <<>>, <<>>, FALSE)

\* bug: the early return is never taken
NeverEmpty(non_friends) == FALSE

\* if not non_friends
PoolIsEmpty(non_friends) == non_friends = <<>>

\* bug: the except clause answers the empty list
EmptyListResponse(current_user, non_friends, vectorized) ==
    Response("get_friend_suggestions", current_user, 200, <<>>, non_friends, <<>>,
             vectorized)

\* the except clause: {"error": "Error generating friend suggestions"}, 500
ErrorResponse(current_user, non_friends, vectorized) ==
    Response("get_friend_suggestions", current_user, 500, <<>>, non_friends, <<>>,
             vectorized)

\* get_friend_suggestions from "if not non_friends" on
SuggestionsFor(current_user, non_friends) ==
    IF PoolIsEmpty(non_friends)
    THEN Response("get_friend_suggestions", current_user, 200, <<>>, <<>>, <<>>, FALSE)
    ELSE LET tfidf == get_tag_vectors(<<current_user>> \o non_friends)
         IN  IF tfidf.raised
             THEN ErrorResponse(current_user, non_friends, TRUE)
             ELSE LET similarities == CosineSimilarity(tfidf.matrix)
                      suggestions == Top3(SortDescending(
                          BuildSuggestions(non_friends, similarities, 1), <<>>))
                  IN  Response("get_friend_suggestions", current_user, 200,
                          List([i \in 1..Len(suggestions) |-> PopSimilarity(suggestions[i])]),
                          non_friends, similarities, TRUE)

\* the body of get_friend_suggestions for a session of an existing user
Suggestions(current_user) == SuggestionsFor(current_user, NonFriends(current_user))

\* bug: the users of the list are recorded as seen, in table
\* dismissed_suggestions
SuggestAndDismiss(current_user) ==
    /\ current_user \in users
    /\ UNCHANGED threads
    /\ resp' = Suggestions(current_user)
    /\ dismissed' = dismissed \cup
           {<<current_user, Suggestions(current_user).body[i].id>> :
               i \in 1..Len(Suggestions(current_user).body)}
    /\ UNCHANGED <<users, tags, friends, requests, partners, goals,
                   points>>

\* bug: the list is module state, and a call that follows a call with a list
\* answers that list
SuggestFromLastCall(current_user) ==
    /\ current_user \in users
    /\ UNCHANGED threads
    /\ resp' = IF resp.op = "get_friend_suggestions" /\ resp.body # <<>>
               THEN [Suggestions(current_user) EXCEPT !.body = resp.body]
               ELSE Suggestions(current_user)
    /\ UNCHANGED store

get_friend_suggestions(current_user) ==
    /\ current_user \in users
    /\ UNCHANGED threads
    /\ resp' = Suggestions(current_user)
    /\ UNCHANGED store

\* ------------------------------------------------------------------ friend requests

\* FriendRequest(sender_id, receiver_id): status defaults to 'pending'
NewRequest(sender_id, receiver_id) ==
    [sender_id |-> sender_id, receiver_id |-> receiver_id, status |-> "pending"]

\* the checks and the insert shared by the two send handlers: ok and refused
\* are the handler's answers
SendRequest(op, current_user, receiver, ok, refused) ==
    IF \/ receiver = current_user
       \/ is_friend(current_user, receiver)
       \/ PendingRequest(current_user, receiver)
    THEN /\ resp' = Plain(op, refused)
         /\ UNCHANGED store
    ELSE /\ Len(requests) < MaxRequests
         /\ requests' = Append(requests, NewRequest(current_user, receiver))
         /\ resp' = Plain(op, ok)
         /\ UNCHANGED <<users, tags, friends, dismissed, partners, goals,
                   points>>

\* POST /send_friend_request_by_id; receiver_id 0 is a missing id
send_friend_request_by_id(current_user, receiver_id) ==
    /\ current_user \in users
    /\ UNCHANGED threads
    /\ IF receiver_id = 0
       THEN resp' = Plain("send_friend_request_by_id", 400) /\ UNCHANGED store
       ELSE IF receiver_id \notin users
       THEN resp' = Plain("send_friend_request_by_id", 404) /\ UNCHANGED store
       ELSE SendRequest("send_friend_request_by_id", current_user, receiver_id, 200, 400)

\* POST /send_friend_request; the form's email is given as the id of the user
\* who has it (0: nobody has it); every outcome redirects to the chat page
send_friend_request(current_user, found_user) ==
    /\ current_user \in users
    /\ UNCHANGED threads
    /\ IF found_user \notin users
       THEN resp' = Plain("send_friend_request", 302) /\ UNCHANGED store
       ELSE SendRequest("send_friend_request", current_user, found_user, 302, 302)

\* User.add_friend
add_friend(self, user) ==
    IF is_friend(self, user) THEN friends
    ELSE friends \cup {<<self, user>>, <<user, self>>}

\* User.remove_friend
remove_friend_rows(self, user) ==
    IF is_friend(self, user) THEN friends \ {<<self, user>>, <<user, self>>}
    ELSE friends

\* User.is_accountability_partner
is_accountability_partner(self, user) == <<self, user>> \in partners

\* User.add_accountability_partner
add_accountability_partner(self, user) ==
    IF is_accountability_partner(self, user) THEN partners
    ELSE partners \cup {<<self, user>>, <<user, self>>}

\* bug: the partner keeps the user in their collection
RemovePartnerOneWay(self, user) ==
    IF is_accountability_partner(self, user) THEN partners \ {<<self, user>>}
    ELSE partners

\* User.remove_accountability_partner
remove_accountability_partner(self, user) ==
    IF is_accountability_partner(self, user)
    THEN partners \ {<<self, user>>, <<user, self>>}
    ELSE partners

\* bug: the receiver of the request is not compared with the caller
HandleByAnyone(current_user, request_id, action) ==
    IF request_id \notin DOMAIN requests
    THEN resp' = Plain("handle_friend_request", 404) /\ UNCHANGED store
    ELSE IF action \notin {"accept", "reject"}
    THEN resp' = Plain("handle_friend_request", 400) /\ UNCHANGED store
    ELSE /\ IF action = "accept"
            THEN /\ requests' = [requests EXCEPT ![request_id].status = "accepted"]
                 /\ friends' = add_friend(current_user, requests[request_id].sender_id)
            ELSE /\ requests' = [requests EXCEPT ![request_id].status = "rejected"]
                 /\ UNCHANGED friends
         /\ resp' = Plain("handle_friend_request", 200)
         /\ UNCHANGED <<users, tags, dismissed, partners, goals,
                   points>>

\* handle_friend_request after get_current_user: the checks, the writes and
\* the commit
HandleRequest(current_user, request_id, action) ==
    IF \/ request_id \notin DOMAIN requests
       \/ requests[request_id].receiver_id # current_user
    THEN resp' = Plain("handle_friend_request", 404) /\ UNCHANGED store
    ELSE IF action \notin {"accept", "reject"}
    THEN resp' = Plain("handle_friend_request", 400) /\ UNCHANGED store
    ELSE /\ IF action = "accept"
            THEN /\ requests' = [requests EXCEPT ![request_id].status = "accepted"]
                 /\ friends' = add_friend(current_user, requests[request_id].sender_id)
            ELSE /\ requests' = [requests EXCEPT ![request_id].status = "rejected"]
                 /\ UNCHANGED friends
         /\ resp' = Plain("handle_friend_request", 200)
         /\ UNCHANGED <<users, tags, dismissed, partners, goals,
                   points>>

\* POST /handle_friend_request/<request_id>
handle_friend_request(current_user, request_id, action) ==
    /\ current_user \in users
    /\ UNCHANGED threads
    /\ HandleRequest(current_user, request_id, action)

\* POST /remove_friend/<friend_id>
remove_friend(current_user, friend_id) ==
    /\ current_user \in users
    /\ UNCHANGED threads
    /\ IF friend_id \notin users
       THEN resp' = Plain("remove_friend", 404) /\ UNCHANGED store
       ELSE IF ~is_friend(current_user, friend_id)
       THEN resp' = Plain("remove_friend", 400) /\ UNCHANGED store
       ELSE /\ friends' = remove_friend_rows(current_user, friend_id)
            /\ partners' = remove_accountability_partner(current_user, friend_id)
            /\ resp' = Plain("remove_friend", 200)
            /\ UNCHANGED <<users, tags, requests, dismissed, goals, points>>

\* POST /toggle_accountability_partner/<friend_id>
toggle_accountability_partner(current_user, friend_id) ==
    /\ current_user \in users
    /\ UNCHANGED threads
    /\ IF friend_id \notin users
       THEN resp' = Plain("toggle_accountability_partner", 404) /\ UNCHANGED store
       ELSE IF ~is_friend(current_user, friend_id)
       THEN resp' = Plain("toggle_accountability_partner", 400) /\ UNCHANGED store
       ELSE /\ partners' = IF is_accountability_partner(current_user, friend_id)
                           THEN remove_accountability_partner(current_user, friend_id)
                           ELSE add_accountability_partner(current_user, friend_id)
            /\ resp' = Plain("toggle_accountability_partner", 200)
            /\ UNCHANGED <<users, tags, friends, requests, dismissed, goals, points>>

\* ------------------------------------------------------------------ dismissal

\* bug: a second dismissal takes the first one back
DismissToggles(self, user) ==
    IF has_dismissed_suggestion(self, user) THEN dismissed \ {<<self, user>>}
    ELSE dismissed \cup {<<self, user>>}

\* User.dismiss_suggestion
dismiss_suggestion(self, user) ==
    IF has_dismissed_suggestion(self, user) THEN dismissed
    ELSE dismissed \cup {<<self, user>>}

\* bug: the dismissed user is not looked up
DismissUnknownUser(current_user, user_id) ==
    /\ current_user \in users
    /\ UNCHANGED threads
    /\ dismissed' = dismiss_suggestion(current_user, user_id)
    /\ resp' = Plain("remove_friend_suggestion", 200)
    /\ UNCHANGED <<users, tags, friends, requests, partners, goals,
                   points>>

\* POST /remove_friend_suggestion/<user_id>
remove_friend_suggestion(current_user, user_id) ==
    /\ current_user \in users
    /\ UNCHANGED threads
    /\ IF user_id \notin users
       THEN resp' = Plain("remove_friend_suggestion", 404) /\ UNCHANGED store
       ELSE /\ dismissed' = dismiss_suggestion(current_user, user_id)
            /\ resp' = Plain("remove_friend_suggestion", 200)
            /\ UNCHANGED <<users, tags, friends, requests, partners, goals,
                   points>>

\* ------------------------------------------------------------------ profile

\* POST /update_profile (form): current_user.tags = json.dumps(tags)
update_profile(current_user, new_tags) ==
    /\ current_user \in users
    /\ UNCHANGED threads
    /\ tags' = [tags EXCEPT ![current_user] = new_tags]
    /\ resp' = Plain("update_profile", 200)
    /\ UNCHANGED <<users, friends, requests, dismissed, partners, goals,
                   points>>

\* ------------------------------------------------------------------ specifications

NoResponse == Plain("none", 0)

\* no request is in progress: the handlers of a specification run one after
\* the other
NoThreads == <<>>

\* the users of the store specification, and those of them who hold a session
UserIds == {1, 2, 3}
Sessions == {1, 2}

\* the store after the sign-ups (of one user, or of all), every user having
\* chosen tags
Init ==
    /\ \E signed_up \in {{1}, UserIds} :
           users = signed_up /\ tags \in [signed_up -> TagChoices]
    /\ friends = {}
    /\ requests = <<>>
    /\ dismissed = {}
    /\ partners = {}
    /\ goals = <<>>
    /\ points = [u \in users |-> 0]
    /\ resp = NoResponse
    /\ threads = NoThreads

\* Requests come from the users of Sessions; user 3 is a candidate who never
\* acts. Nobody dismisses themselves: the row would change no suggestion.
Next ==
    \/ \E u \in Sessions : get_friend_suggestions(u)
    \/ \E u \in Sessions, v \in UserIds \cup {0} : send_friend_request_by_id(u, v)
    \/ \E u \in Sessions, v \in UserIds \cup {0} : send_friend_request(u, v)
    \/ \E u \in Sessions, i \in 1..MaxRequests, a \in {"accept", "reject", "block"} :
           handle_friend_request(u, i, a)
    \/ \E u \in Sessions, v \in UserIds : remove_friend(u, v)
    \/ \E u \in Sessions : \E v \in UserIds \ {u} : remove_friend_suggestion(u, v)
    \/ \E u \in Sessions, t \in TagChoices : update_profile(u, t)

Spec == Init /\ [][Next]_vars

\* ------------------------------------------------------------------ ranking

\* the tag lists of the ranking specification: "Go" and "go" are one term,
\* the one-letter tag "c" is no term
RankTagLists ==
    {JsonList(<<>>), JsonList(<<Go, Py>>), JsonList(<<GoUpper, C>>),
     JsonList(<<Go, Js, Qt>>)}

\* tag lists with a cosine of exactly 3 / 10: the three terms are in two
\* documents each, and (1, 3, 0) . (3, 0, 1) = 3 = 0.3 * sqrt(10) * sqrt(10)
ThresholdTagLists ==
    {JsonList(<<Go, Py, Py, Py>>), JsonList(<<Go, Go, Go, Js>>), JsonList(<<Py, Js>>)}

RankIds == 1..(MaxPool + 1)
ThresholdIds == {1, 2, 3}

\* users with tags and no relationship between them
InitRank ==
    /\ \/ users = RankIds /\ tags \in [RankIds -> RankTagLists]
       \/ users = ThresholdIds /\ tags \in [ThresholdIds -> ThresholdTagLists]
    /\ friends = {}
    /\ requests = <<>>
    /\ dismissed = {}
    /\ partners = {}
    /\ goals = <<>>
    /\ points = [u \in users |-> 0]
    /\ resp = NoResponse
    /\ threads = NoThreads

\* one request per behaviour: the store does not change, a second call adds no state
NextRank == resp = NoResponse /\ \E u \in RankIds : get_friend_suggestions(u)

SpecRank == InitRank /\ [][NextRank]_vars

\* ------------------------------------------------------------------ terms

\* two-word tags that share their second word, as 'machine learning' and
\* 'deep learning' do
McMl == <<"m", "c", " ", "m", "l">>
DpMl == <<"d", "p", " ", "m", "l">>

\* tag lists whose tags are not the terms of the vectorizer: the one-letter
\* tag and the two-word tags, beside the empty list and a list of one term
TermTagLists ==
    {JsonList(<<>>), JsonList(<<C>>), JsonList(<<McMl>>), JsonList(<<DpMl>>),
     JsonList(<<Go>>)}

\* three users with tags and no relationship between them
InitTerms ==
    /\ users = ThresholdIds
    /\ tags \in [ThresholdIds -> TermTagLists]
    /\ friends = {}
    /\ requests = <<>>
    /\ dismissed = {}
    /\ partners = {}
    /\ goals = <<>>
    /\ points = [u \in users |-> 0]
    /\ resp = NoResponse
    /\ threads = NoThreads

SpecTerms == InitTerms /\ [][NextRank]_vars

\* ------------------------------------------------------------------ profiles

\* the values of the tags field of the profile requests: two lists, the string
\* "go" and the number 5
ProfileTagChoices == {JsonList(<<>>), JsonList(<<Go>>), JsonString(Go), JsonNumber(<<"5">>)}

\* the store after the sign-ups: tags has its default '[]'
InitProfile ==
    /\ users = UserIds
    /\ tags = [u \in UserIds |-> JsonList(<<>>)]
    /\ friends = {}
    /\ requests = <<>>
    /\ dismissed = {}
    /\ partners = {}
    /\ goals = <<>>
    /\ points = [u \in users |-> 0]
    /\ resp = NoResponse
    /\ threads = NoThreads

NextProfile ==
    \/ \E u \in UserIds : get_friend_suggestions(u)
    \/ \E u \in UserIds, t \in ProfileTagChoices : update_profile(u, t)

SpecProfile == InitProfile /\ [][NextProfile]_vars

\* ------------------------------------------------------------------ accounts

\* the user whose email, name and password are ADMIN_CREDENTIALS
Admin == 1

\* the id SQLite gives a new row: one more than the largest id of the table
NextUserId == IF users = {} THEN 1 ELSE 1 + (CHOOSE m \in users : \A u \in users : u <= m)

\* POST /signup with an email no user has: the new user has the default tags
signup ==
    /\ NextUserId \in UserIds
    /\ UNCHANGED threads
    /\ users' = users \cup {NextUserId}
    /\ tags' = [u \in users \cup {NextUserId} |->
                   IF u = NextUserId THEN JsonList(<<>>) ELSE tags[u]]
    /\ points' = [u \in users \cup {NextUserId} |->
                     IF u = NextUserId THEN 0 ELSE points[u]]
    /\ resp' = Plain("signup", 302)
    /\ UNCHANGED <<friends, requests, dismissed, partners, goals>>

\* bug: only the rows of the collection of the deleted user go, not those of
\* the backref
RowsOfOwner(table, user) == {row \in table : row[1] = user}

\* the rows of an association table that db.session.delete(user) deletes:
\* those of the user's collection and those of its backref
RowsOf(table, user) == {row \in table : row[1] = user \/ row[2] = user}

\* what is left of a row of friend_request deleted with its sender or
\* receiver (cascade='all, delete-orphan'): no user sent it or can handle it
DeletedRequest == [sender_id |-> 0, receiver_id |-> 0, status |-> "deleted"]

\* the deleted rows at the end of the table: SQLite gives their ids to the
\* next rows
RECURSIVE DropDeletedTail(_)
DropDeletedTail(rows) ==
    IF rows # <<>> /\ rows[Len(rows)] = DeletedRequest
    THEN DropDeletedTail(SubSeq(rows, 1, Len(rows) - 1))
    ELSE rows

RequestsWithout(user) ==
    DropDeletedTail(List([i \in 1..Len(requests) |->
        IF requests[i].sender_id = user \/ requests[i].receiver_id = user
        THEN DeletedRequest ELSE requests[i]]))

\* what is left of a row of goal deleted with its user (the backref goals
\* has cascade='all, delete-orphan')
DeletedGoal == [user_id |-> 0, points |-> 0, status |-> "deleted"]

RECURSIVE DropDeletedGoals(_)
DropDeletedGoals(rows) ==
    IF rows # <<>> /\ rows[Len(rows)] = DeletedGoal
    THEN DropDeletedGoals(SubSeq(rows, 1, Len(rows) - 1))
    ELSE rows

GoalsWithout(user) ==
    DropDeletedGoals(List([i \in 1..Len(goals) |->
        IF goals[i].user_id = user THEN DeletedGoal ELSE goals[i]]))

\* db.session.delete(user); db.session.commit()
DeleteUser(user) ==
    /\ users' = users \ {user}
    /\ tags' = [u \in users \ {user} |-> tags[u]]
    /\ friends' = friends \ RowsOf(friends, user)
    /\ dismissed' = dismissed \ RowsOf(dismissed, user)
    /\ requests' = RequestsWithout(user)
    /\ partners' = partners \ RowsOf(partners, user)
    /\ goals' = GoalsWithout(user)
    /\ points' = [u \in users \ {user} |-> points[u]]

\* POST /delete_account
delete_account(current_user) ==
    /\ current_user \in users
    /\ UNCHANGED threads
    /\ DeleteUser(current_user)
    /\ resp' = Plain("delete_account", 200)

\* POST /admin/delete/<email>; the email is given as the id of the user who
\* has it (0: nobody has it); every outcome redirects
delete_user(current_user, found_user) ==
    /\ current_user \in users
    /\ UNCHANGED threads
    /\ resp' = Plain("delete_user", 302)
    /\ IF current_user # Admin \/ found_user \notin users
       THEN UNCHANGED store
       ELSE DeleteUser(found_user)

\* the store after three sign-ups and profile updates
InitAccounts ==
    /\ users = UserIds
    /\ tags = [u \in UserIds |-> JsonList(<<Go>>)]
    /\ friends = {}
    /\ requests = <<>>
    /\ dismissed = {}
    /\ partners = {}
    /\ goals = <<>>
    /\ points = [u \in users |-> 0]
    /\ resp = NoResponse
    /\ threads = NoThreads

NextAccounts ==
    \/ signup
    \/ \E u \in UserIds : delete_account(u)
    \/ \E u \in UserIds, v \in UserIds \cup {0} : delete_user(u, v)
    \/ \E u \in UserIds : get_friend_suggestions(u)
    \/ \E u \in UserIds, v \in UserIds : send_friend_request_by_id(u, v)
    \/ \E u \in UserIds, i \in 1..MaxRequests, a \in {"accept", "reject"} :
           handle_friend_request(u, i, a)
    \/ \E u \in UserIds, v \in UserIds : remove_friend(u, v)

SpecAccounts == InitAccounts /\ [][NextAccounts]_vars

\* ------------------------------------------------------------------ partners

\* the requests of the accounts specification, and friends who make and end
\* accountability partnerships
NextPartners ==
    \/ NextAccounts
    \/ \E u \in UserIds, v \in UserIds : toggle_accountability_partner(u, v)

SpecPartners == InitAccounts /\ [][NextPartners]_vars

\* ------------------------------------------------------------------ requests

\* two users who send, handle and unfriend
PairIds == {1, 2}

\* the store after the sign-ups of two users with one tag, before any friend
\* request or after each of the two has sent one to the other:
\* send_friend_request_by_id looks for a pending request of the sender only
InitRequests ==
    /\ users = PairIds
    /\ tags = [u \in PairIds |-> JsonList(<<Go>>)]
    /\ friends = {}
    /\ requests \in {<<>>, <<NewRequest(1, 2), NewRequest(2, 1)>>}
    /\ dismissed = {}
    /\ partners = {}
    /\ goals = <<>>
    /\ points = [u \in users |-> 0]
    /\ resp = NoResponse
    /\ threads = NoThreads

\* request ids are those of the rows and the one after them, which no row has
NextRequests ==
    \/ \E u \in PairIds : get_friend_suggestions(u)
    \/ \E u \in PairIds, v \in PairIds : send_friend_request_by_id(u, v)
    \/ \E u \in PairIds, i \in 1..(Len(requests) + 1), a \in {"accept", "reject"} :
           handle_friend_request(u, i, a)
    \/ \E u \in PairIds, v \in PairIds : remove_friend(u, v)
    \/ \E u \in PairIds : \E v \in PairIds \ {u} : remove_friend_suggestion(u, v)

SpecRequests == InitRequests /\ [][NextRequests]_vars

\* ------------------------------------------------------------------ sessions

\* The session is a cookie the client keeps: the request carries it whatever
\* became of the account. It is given as the id of the user whose email it
\* holds; 0: it holds no email.

\* get_current_user(): None (here 0) when no user has the email of the session
get_current_user(session) == IF session \in users THEN session ELSE 0

\* GET /get_friend_suggestions, from the check of the session on
get_friend_suggestions_request(session) ==
    IF session = 0
    THEN resp' = Plain("get_friend_suggestions", 401) /\ UNCHANGED <<store, threads>>
    ELSE IF get_current_user(session) = 0
    THEN resp' = Plain("get_friend_suggestions", 401) /\ UNCHANGED <<store, threads>>
    ELSE get_friend_suggestions(get_current_user(session))

\* POST /remove_friend_suggestion/<user_id>, from the check of the session
\* on: without a session the answer is the redirect to the home page
remove_friend_suggestion_request(session, user_id) ==
    IF session = 0
    THEN resp' = Plain("remove_friend_suggestion", 302) /\ UNCHANGED <<store, threads>>
    ELSE IF get_current_user(session) = 0
    THEN resp' = Plain("remove_friend_suggestion", 401) /\ UNCHANGED <<store, threads>>
    ELSE remove_friend_suggestion(get_current_user(session), user_id)

\* the cookies of the requests: none, or the one of a user who signed up
Cookies == UserIds \cup {0}

\* accounts are deleted and made while the clients keep their cookies; a
\* sign-up that gets the id of a deleted user is one with that user's email
NextSessions ==
    \/ \E s \in Cookies : get_friend_suggestions_request(s)
    \/ \E s \in Cookies, v \in UserIds : remove_friend_suggestion_request(s, v)
    \/ \E u \in UserIds : delete_account(u)
    \/ signup

SpecSessions == InitAccounts /\ [][NextSessions]_vars

\* ------------------------------------------------------------------ concurrency

\* The server handles requests in threads, each with a database session of
\* its own. A query reads the rows committed at its moment and a commit
\* writes its rows at once, so a handler is a sequence of steps, one per
\* query and one per commit, and the steps of two handlers interleave.

\* the threads that handle requests at one time, and the users who send them
ThreadIds == {1, 2}
ConcurrentIds == {1, 2}

\* a thread that handles no request. db_ok tells whether the database serves
\* the request; pools is history, not a local of the handler: the eligible
\* users of the stores that were replaced while get_friend_suggestions ran.
\* user_points and goal_points are the column values the session of
\* complete_goal has loaded.
Idle ==
    [op |-> "idle", pc |-> "idle", user |-> 0, arg |-> 0, db_ok |-> TRUE,
     seen |-> FALSE, all_users |-> <<>>, idx |-> 0, non_friends |-> <<>>,
     user_points |-> 0, goal_points |-> 0, pools |-> {}]

\* a commit replaces the store: the running calls of get_friend_suggestions
\* note the pool of the store that goes
RecordPools(ts) ==
    [t \in ThreadIds |->
        IF ts[t].op = "get_friend_suggestions"
        THEN [ts[t] EXCEPT !.pools = @ \cup {NonFriends(ts[t].user)}]
        ELSE ts[t]]

\* the loop over all_users goes on to the next user, or ends
NextCandidate(th, non_friends) ==
    [th EXCEPT !.idx = @ + 1,
               !.non_friends = non_friends,
               !.pc = IF th.idx + 1 > Len(th.all_users) THEN "vectors" ELSE "is_friend"]

\* get_friend_suggestions up to the query for all_users; a database that
\* does not serve the request raises, and the except clause answers
get_friend_suggestions_begin(t, current_user, db_ok) ==
    /\ threads[t].pc = "idle"
    /\ current_user \in users
    /\ IF db_ok
       THEN /\ threads' = [threads EXCEPT ![t] =
                   NextCandidate([Idle EXCEPT !.op = "get_friend_suggestions",
                                              !.user = current_user,
                                              !.all_users = AllUsers(current_user)],
                                 <<>>)]
            /\ UNCHANGED resp
       ELSE /\ resp' = ErrorResponse(current_user, <<>>, FALSE)
            /\ UNCHANGED threads
    /\ UNCHANGED store

\* the query at th.pc of the condition under "if not (...)", for the user at
\* th.idx
QueryFinds(th) ==
    LET user == th.all_users[th.idx]
    IN  CASE th.pc = "is_friend" -> is_friend(th.user, user)
          [] th.pc = "sent"      -> PendingRequest(th.user, user)
          [] th.pc = "received"  -> PendingRequest(user, th.user)
          [] th.pc = "dismissed" -> has_dismissed_suggestion(th.user, user)

\* the operand of "or" after the one at pc
NextQuery(pc) ==
    CASE pc = "is_friend" -> "sent"
      [] pc = "sent"      -> "received"
      [] pc = "received"  -> "dismissed"

\* one query of the loop: "or" stops at the first query that finds a row, and
\* the user for whom none finds one is appended to non_friends
get_friend_suggestions_query(t) ==
    LET th == threads[t]
    IN  /\ th.op = "get_friend_suggestions"
        /\ th.pc \in {"is_friend", "sent", "received", "dismissed"}
        /\ threads' = [threads EXCEPT ![t] =
               IF QueryFinds(th) THEN NextCandidate(th, th.non_friends)
               ELSE IF th.pc = "dismissed"
               THEN NextCandidate(th, Append(th.non_friends, th.all_users[th.idx]))
               ELSE [th EXCEPT !.pc = NextQuery(th.pc)]]
        /\ UNCHANGED <<store, resp>>

\* get_friend_suggestions from "if not non_friends" on
get_friend_suggestions_end(t) ==
    LET th == threads[t]
    IN  /\ th.op = "get_friend_suggestions"
        /\ th.pc = "vectors"
        /\ resp' = SuggestionsFor(th.user, th.non_friends)
        /\ threads' = [threads EXCEPT ![t] = Idle]
        /\ UNCHANGED store

\* remove_friend_suggestion up to the query of has_dismissed_suggestion
remove_friend_suggestion_begin(t, current_user, user_id, db_ok) ==
    /\ threads[t].pc = "idle"
    /\ current_user \in users
    /\ IF user_id \notin users
       THEN /\ resp' = Plain("remove_friend_suggestion", 404)
            /\ UNCHANGED threads
       ELSE /\ threads' = [threads EXCEPT ![t] =
                   [Idle EXCEPT !.op = "remove_friend_suggestion",
                                !.pc = "commit",
                                !.user = current_user,
                                !.arg = user_id,
                                !.db_ok = db_ok,
                                !.seen = has_dismissed_suggestion(current_user, user_id)]]
            /\ UNCHANGED resp
    /\ UNCHANGED store

\* db.session.commit() of remove_friend_suggestion. Nothing is written when
\* the query had found the row. The INSERT fails when the row is there by now
\* (the primary key) or the database does not serve it: the except clause
\* rolls back and answers 'Database error'.
remove_friend_suggestion_commit(t) ==
    LET th == threads[t]
        row == <<th.user, th.arg>>
    IN  /\ th.op = "remove_friend_suggestion"
        /\ th.pc = "commit"
        /\ IF th.seen
           THEN /\ resp' = Plain("remove_friend_suggestion", 200)
                /\ UNCHANGED dismissed
           ELSE IF row \in dismissed \/ ~th.db_ok
           THEN /\ resp' = Plain("remove_friend_suggestion", 500)
                /\ UNCHANGED dismissed
           ELSE /\ resp' = Plain("remove_friend_suggestion", 200)
                /\ dismissed' = dismissed \cup {row}
        /\ threads' = [RecordPools(threads) EXCEPT ![t] = Idle]
        /\ UNCHANGED <<users, tags, friends, requests, partners, goals,
                   points>>

\* handle_friend_request, in one step: what it writes does not depend on the
\* moment it read the request
handle_friend_request_commit(current_user, request_id, action) ==
    /\ current_user \in users
    /\ threads' = RecordPools(threads)
    /\ HandleRequest(current_user, request_id, action)

\* two users with one tag list, and the store before or after user 1 sent a
\* friend request to user 2
InitConcurrent ==
    /\ users = ConcurrentIds
    /\ \E t \in TagChoices : tags = [u \in ConcurrentIds |-> t]
    /\ friends = {}
    /\ requests \in {<<>>, <<NewRequest(1, 2)>>}
    /\ dismissed = {}
    /\ partners = {}
    /\ goals = <<>>
    /\ points = [u \in users |-> 0]
    /\ resp = NoResponse
    /\ threads = [t \in ThreadIds |-> Idle]

NextConcurrent ==
    \/ \E t \in ThreadIds, u \in ConcurrentIds, ok \in BOOLEAN :
           get_friend_suggestions_begin(t, u, ok)
    \/ \E t \in ThreadIds : get_friend_suggestions_query(t)
    \/ \E t \in ThreadIds : get_friend_suggestions_end(t)
    \/ \E t \in ThreadIds, u \in ConcurrentIds, ok \in BOOLEAN :
           \E v \in (ConcurrentIds \cup {0}) \ {u} :
               remove_friend_suggestion_begin(t, u, v, ok)
    \/ \E t \in ThreadIds : remove_friend_suggestion_commit(t)
    \/ \E u \in ConcurrentIds, a \in {"accept", "reject"} :
           handle_friend_request_commit(u, 1, a)

SpecConcurrent == InitConcurrent /\ [][NextConcurrent]_vars

\* ------------------------------------------------------------------ concurrent sends

\* the rows of friend_request in the specification of concurrent sends
MaxSends == 2

\* send_friend_request_by_id up to the query for a pending request of the
\* sender: the answers of the checks, or the thread goes on to the insert
send_friend_request_by_id_begin(t, current_user, receiver_id) ==
    /\ threads[t].pc = "idle"
    /\ current_user \in users
    /\ IF receiver_id = 0
       THEN resp' = Plain("send_friend_request_by_id", 400) /\ UNCHANGED threads
       ELSE IF receiver_id \notin users
       THEN resp' = Plain("send_friend_request_by_id", 404) /\ UNCHANGED threads
       ELSE IF \/ receiver_id = current_user
               \/ is_friend(current_user, receiver_id)
               \/ PendingRequest(current_user, receiver_id)
       THEN resp' = Plain("send_friend_request_by_id", 400) /\ UNCHANGED threads
       ELSE /\ threads' = [threads EXCEPT ![t] =
                   [Idle EXCEPT !.op = "send_friend_request_by_id",
                                !.pc = "commit",
                                !.user = current_user,
                                !.arg = receiver_id]]
            /\ UNCHANGED resp
    /\ UNCHANGED store

\* db.session.add(friend_request); db.session.commit(): the table has no
\* constraint but its primary key, the id of the new row
send_friend_request_by_id_commit(t) ==
    LET th == threads[t]
    IN  /\ th.op = "send_friend_request_by_id"
        /\ th.pc = "commit"
        /\ Len(requests) < MaxSends
        /\ requests' = Append(requests, NewRequest(th.user, th.arg))
        /\ resp' = Plain("send_friend_request_by_id", 200)
        /\ threads' = [RecordPools(threads) EXCEPT ![t] = Idle]
        /\ UNCHANGED <<users, tags, friends, dismissed, partners, goals,
                   points>>

\* two users with one tag and no friend request
InitSending ==
    /\ users = PairIds
    /\ tags = [u \in PairIds |-> JsonList(<<Go>>)]
    /\ friends = {}
    /\ requests = <<>>
    /\ dismissed = {}
    /\ partners = {}
    /\ goals = <<>>
    /\ points = [u \in users |-> 0]
    /\ resp = NoResponse
    /\ threads = [t \in ThreadIds |-> Idle]

NextSending ==
    \/ \E t \in ThreadIds, u \in PairIds, v \in PairIds \cup {0} :
           send_friend_request_by_id_begin(t, u, v)
    \/ \E t \in ThreadIds : send_friend_request_by_id_commit(t)
    \/ \E u \in PairIds, i \in 1..MaxSends, a \in {"accept", "reject"} :
           handle_friend_request_commit(u, i, a)

SpecSending == InitSending /\ [][NextSending]_vars

\* ------------------------------------------------------------------ goals

\* the rows of table goal
MaxGoals == 2

\* points_map of add_goal
points_map == [easy |-> 100, medium |-> 250, hard |-> 500]

\* POST /add_goal with a title
add_goal(current_user, difficulty) ==
    /\ current_user \in users
    /\ IF difficulty \notin DOMAIN points_map
       THEN resp' = Plain("add_goal", 400) /\ UNCHANGED <<store, threads>>
       ELSE /\ Len(goals) < MaxGoals
            /\ goals' = Append(goals, [user_id |-> current_user,
                                       points |-> points_map[difficulty],
                                       status |-> "not_started"])
            /\ resp' = Plain("add_goal", 200)
            /\ threads' = RecordPools(threads)
            /\ UNCHANGED <<users, tags, friends, requests, dismissed, partners, points>>

\* POST /update_goal_status/<goal_id>
update_goal_status(current_user, goal_id, new_status) ==
    /\ current_user \in users
    /\ IF goal_id \notin DOMAIN goals \/ goals[goal_id].user_id # current_user
       THEN resp' = Plain("update_goal_status", 404) /\ UNCHANGED <<store, threads>>
       ELSE IF goals[goal_id].status = "completed"
       THEN resp' = Plain("update_goal_status", 400) /\ UNCHANGED <<store, threads>>
       ELSE IF new_status \notin {"not_started", "in_progress"}
       THEN resp' = Plain("update_goal_status", 400) /\ UNCHANGED <<store, threads>>
       ELSE /\ goals' = [goals EXCEPT ![goal_id].status = new_status]
            /\ resp' = Plain("update_goal_status", 200)
            /\ threads' = RecordPools(threads)
            /\ UNCHANGED <<users, tags, friends, requests, dismissed, partners, points>>

\* complete_goal up to get_current_user(): the session loads the row of the
\* user, points included
complete_goal_begin(t, current_user, goal_id) ==
    /\ threads[t].pc = "idle"
    /\ current_user \in users
    /\ threads' = [threads EXCEPT ![t] =
           [Idle EXCEPT !.op = "complete_goal",
                        !.pc = "goal",
                        !.user = current_user,
                        !.arg = goal_id,
                        !.user_points = points[current_user]]]
    /\ UNCHANGED <<store, resp>>

\* Goal.query.get(goal_id) and the checks of the goal
complete_goal_query(t) ==
    LET th == threads[t]
    IN  /\ th.op = "complete_goal"
        /\ th.pc = "goal"
        /\ IF th.arg \notin DOMAIN goals \/ goals[th.arg].user_id # th.user
           THEN /\ resp' = Plain("complete_goal", 404)
                /\ threads' = [threads EXCEPT ![t] = Idle]
           ELSE IF goals[th.arg].status = "completed"
           THEN /\ resp' = Plain("complete_goal", 400)
                /\ threads' = [threads EXCEPT ![t] = Idle]
           ELSE /\ threads' = [threads EXCEPT ![t].pc = "commit",
                                              ![t].goal_points = goals[th.arg].points]
                /\ UNCHANGED resp
        /\ UNCHANGED store

\* current_user.points += goal.points: the sum of the values the session has
\* loaded
Awarded(th) == th.user_points + th.goal_points

\* goal.status = 'completed'; current_user.points += goal.points;
\* db.session.commit(): the UPDATEs write the values the session computed. An
\* UPDATE of a row that is gone raises, and the except clause answers
\* 'Database error'.
complete_goal_commit(t) ==
    LET th == threads[t]
    IN  /\ th.op = "complete_goal"
        /\ th.pc = "commit"
        /\ IF th.user \notin users \/ th.arg \notin DOMAIN goals
              \/ goals[th.arg] = DeletedGoal
           THEN /\ resp' = Plain("complete_goal", 500)
                /\ threads' = [threads EXCEPT ![t] = Idle]
                /\ UNCHANGED store
           ELSE /\ goals' = [goals EXCEPT ![th.arg].status = "completed"]
                /\ points' = [points EXCEPT ![th.user] = Awarded(th)]
                /\ resp' = Plain("complete_goal", 200)
                /\ threads' = [RecordPools(threads) EXCEPT ![t] = Idle]
                /\ UNCHANGED <<users, tags, friends, requests, dismissed, partners>>

\* what the add_goal requests carry as difficulty, 'none' being no key of
\* points_map, and the users who add goals
Difficulties == {"easy", "hard", "none"}
GoalOwners == {1}

\* two users with no goal and no points
InitGoals ==
    /\ users = PairIds
    /\ tags = [u \in PairIds |-> JsonList(<<Go>>)]
    /\ friends = {}
    /\ requests = <<>>
    /\ dismissed = {}
    /\ partners = {}
    /\ goals = <<>>
    /\ points = [u \in users |-> 0]
    /\ resp = NoResponse
    /\ threads = [t \in ThreadIds |-> Idle]

\* goal ids are those of the rows and the one after them, which no row has
NextGoals ==
    \/ \E u \in GoalOwners, d \in Difficulties : add_goal(u, d)
    \/ \E u \in PairIds, g \in 1..(Len(goals) + 1),
          st \in {"in_progress", "completed"} : update_goal_status(u, g, st)
    \/ \E t \in ThreadIds, u \in PairIds, g \in 1..(Len(goals) + 1) :
           complete_goal_begin(t, u, g)
    \/ \E t \in ThreadIds : complete_goal_query(t)
    \/ \E t \in ThreadIds : complete_goal_commit(t)

SpecGoals == InitGoals /\ [][NextGoals]_vars

\* ------------------------------------------------------------------ properties

\* the latest response is a suggestion list
Answered == resp.op = "get_friend_suggestions" /\ resp.code = 200

\* the ids of the users in the list
Returned == {resp.body[i].id : i \in 1..Len(resp.body)}

\* the place of user u in the pool of the call, and the similarity computed for it
PoolIndex(u) == CHOOSE k \in 1..Len(resp.non_friends) : resp.non_friends[k] = u
SimilarityOf(u) == resp.similarities[PoolIndex(u)]

\* the pool of the call, as a set
Pool == Range(resp.non_friends)

\* the candidates of the pool that meet the threshold 3 / 10
Meeting == {u \in Pool : SimAtLeast(SimilarityOf(u), 3, 10)}

\* the cosine s is exactly 3 / 10: 100 * s.num = 9 * s.den
AtThreshold(s) ==
    /\ BigGeq(BigTimes(Big(100), s.num), BigTimes(Big(9), s.den))
    /\ BigGeq(BigTimes(Big(9), s.den), BigTimes(Big(100), s.num))

\* rows of the store, read without the methods of User
PendingRow(a, b) ==
    \E i \in 1..Len(requests) :
        requests[i] = [sender_id |-> a, receiver_id |-> b, status |-> "pending"]

ExcludedFor(r, u) ==
    \/ <<r, u>> \in friends
    \/ PendingRow(r, u)
    \/ PendingRow(u, r)
    \/ <<r, u>> \in dismissed

NoTags(u) == tags[u] = JsonList(<<>>)

\* C1: no user in the list returned to requester r is a friend of r, has a
\* pending friend request with r in either direction, or was dismissed by r.
C1_ExcludedNeverSuggested ==
    resp.op = "get_friend_suggestions" =>
        \A u \in Returned : ~ExcludedFor(resp.user, u)

\* a list was returned while a user with the requester's own tags has a
\* pending request to the requester
C1_Witness ==
    /\ Answered
    /\ Returned # {}
    /\ \E u \in users \ {resp.user} :
        /\ PendingRow(u, resp.user)
        /\ tags[u] = tags[resp.user]
        /\ ~NoTags(u)

\* C2: every returned user has a similarity of at least 0.3 in that call, so
\* no candidate below 0.3 is returned; a candidate at exactly 0.3 is kept.
C2_ThresholdKept ==
    Answered =>
        /\ Returned \subseteq Meeting
        /\ \A u \in Pool :
               (Len(resp.non_friends) <= 3 /\ AtThreshold(SimilarityOf(u))) => u \in Returned

\* a candidate whose similarity is exactly 3 / 10 is in the list, while
\* another candidate of the pool is above it
C2_Witness ==
    /\ Answered
    /\ \E u \in Returned :
        /\ AtThreshold(SimilarityOf(u))
        /\ \E v \in Returned : ~SimGeq(SimilarityOf(u), SimilarityOf(v))

\* C3: the list never has more than 3 entries.
C3_AtMostThree == resp.op = "get_friend_suggestions" => Len(resp.body) <= 3

\* three users are returned while more than three candidates meet the threshold
C3_Witness == Answered /\ Len(resp.body) = 3 /\ Cardinality(Meeting) > 3

\* C4: the list is in non-increasing order of similarity, and two returned
\* users of equal similarity are in the order of the pool enumeration.
C4_SortedStable ==
    Answered =>
        \A i \in 1..Len(resp.body) : \A j \in 1..Len(resp.body) :
            i < j =>
                LET a == resp.body[i].id
                    b == resp.body[j].id
                IN  /\ SimGeq(SimilarityOf(a), SimilarityOf(b))
                    /\ SimGeq(SimilarityOf(b), SimilarityOf(a)) => PoolIndex(a) < PoolIndex(b)

\* a list of three: the first is a later candidate of the pool than the two
\* after it, which have one similarity
C4_Witness ==
    /\ Answered
    /\ Len(resp.body) = 3
    /\ PoolIndex(resp.body[1].id) > PoolIndex(resp.body[3].id)
    /\ ~SimGeq(SimilarityOf(resp.body[2].id), SimilarityOf(resp.body[1].id))
    /\ SimGeq(SimilarityOf(resp.body[3].id), SimilarityOf(resp.body[2].id))

\* C5: the list is the top of the ranking: it has min(3, k) entries when k
\* candidates meet the threshold, no candidate left out is more similar than
\* a returned one, and one left out at the similarity of a returned one comes
\* later in the pool enumeration.
C5_TopOfRanking ==
    Answered =>
        /\ Len(resp.body) = Min(3, Cardinality(Meeting))
        /\ Cardinality(Returned) = Len(resp.body)
        /\ \A u \in Returned : \A v \in Pool \ Returned :
               /\ SimGeq(SimilarityOf(u), SimilarityOf(v))
               /\ SimGeq(SimilarityOf(v), SimilarityOf(u)) => PoolIndex(u) < PoolIndex(v)

\* more than three candidates of one similarity meet the threshold, and the
\* first three of the enumeration are the list
C5_Witness ==
    /\ Answered
    /\ Cardinality(Meeting) > 3
    /\ \A u \in Meeting : \A v \in Meeting : SimGeq(SimilarityOf(u), SimilarityOf(v))
    /\ \A i \in 1..3 : resp.body[i].id = resp.non_friends[i]

\* C6: the requester is never in their own list.
C6_NeverSelf == resp.op = "get_friend_suggestions" => resp.user \notin Returned

\* a requester who has tags gets a list that is not empty
C6_Witness == Answered /\ Returned # {} /\ ~NoTags(resp.user)

\* C7: a dismissal is idempotent and lasting. Dismissing an existing user
\* succeeds and records the dismissal; dismissing a dismissed user again
\* succeeds and leaves the store as it is; no operation removes a dismissal;
\* a dismissed user is in no list returned to the one who dismissed.
C7_DismissIdempotentLasting ==
    /\ [](resp.op = "get_friend_suggestions" =>
            \A u \in Returned : <<resp.user, u>> \notin dismissed)
    /\ [][\A r \in users : \A t \in users :
            /\ (resp'.op = "remove_friend_suggestion"
                  /\ remove_friend_suggestion(r, t)) =>
                  /\ resp'.code = 200
                  /\ <<r, t>> \in dismissed'
                  /\ <<r, t>> \in dismissed => store' = store
            /\ <<r, t>> \in dismissed => <<r, t>> \in dismissed']_vars

\* a list was returned to a requester who has dismissed a user with the
\* requester's own tags
C7_Witness ==
    /\ Answered
    /\ Returned # {}
    /\ \E t \in users \ {resp.user} :
        /\ <<resp.user, t>> \in dismissed
        /\ tags[t] = tags[resp.user]
        /\ ~NoTags(t)

\* C8: a dismissal is one-way: a user r who dismissed t, and whom nothing
\* else excludes for t, is a candidate of t's pool, and is in t's list when r
\* meets the threshold and the pool has no more than 3 candidates.
C8_DismissOneWay ==
    Answered =>
        \A r \in users \ {resp.user} :
            (<<r, resp.user>> \in dismissed /\ ~ExcludedFor(resp.user, r)) =>
                /\ r \in Pool
                /\ (r \in Meeting /\ Len(resp.non_friends) <= 3) => r \in Returned

\* the list returned to t has r, who dismissed t
C8_Witness ==
    /\ Answered
    /\ \E r \in Returned : <<r, resp.user>> \in dismissed

\* C9: when there is no other user, or every other user is excluded for the
\* requester, the answer is the empty list and get_tag_vectors is not called.
C9_EmptyPool ==
    (resp.op = "get_friend_suggestions"
        /\ \A u \in users \ {resp.user} : ExcludedFor(resp.user, u)) =>
            /\ resp.code = 200
            /\ resp.body = <<>>
            /\ ~resp.vectorized

\* the empty list was returned to a requester with no candidate, in a store
\* whose users have no tags (the vectorizer raises on them)
C9_Witness ==
    /\ Answered
    /\ resp.body = <<>>
    /\ ~resp.vectorized
    /\ \A u \in users : NoTags(u)
    /\ \A u \in users \ {resp.user} : ExcludedFor(resp.user, u)

\* C10: a requester whose tag list is empty gets the empty list, not an
\* error, against every pool that is not empty.
C10_NoTagsEmptyList ==
    (resp.op = "get_friend_suggestions" /\ NoTags(resp.user) /\ resp.non_friends # <<>>) =>
        resp.code = 200 /\ resp.body = <<>>

\* C11: the similarity computation is total: whatever tag values the store
\* holds, a call of get_friend_suggestions is answered with a list, never
\* with the error 'Error generating friend suggestions'.
C11_SimilarityTotal == resp.op = "get_friend_suggestions" => resp.code = 200

\* the tags that two users both have, as whole tags
SharedTags(a, b) == Range(tags[a].items) \cap Range(tags[b].items)

\* the cosine s is 0
IsZero(s) == BigTrim(s.num) = <<>>

\* candidate u is before candidate v in the ranking of the call
RankedBefore(u, v) ==
    \/ ~SimGeq(SimilarityOf(v), SimilarityOf(u))
    \/ SimGeq(SimilarityOf(u), SimilarityOf(v)) /\ PoolIndex(u) < PoolIndex(v)

\* C12: in an answered call, a candidate whose tag list is the requester's
\* tag list, which is not empty, meets the threshold and is ranked before
\* every candidate of the ranking that has no tag in common with the requester.
C12_IdenticalTagsFirst ==
    Answered =>
        \A u \in Pool :
            (tags[u] = tags[resp.user] /\ ~NoTags(resp.user)) =>
                /\ u \in Meeting
                /\ \A v \in Meeting : SharedTags(resp.user, v) = {} => RankedBefore(u, v)

\* C13: a tag is one term: in an answered call, a candidate that has no
\* whole tag in common with the requester has similarity 0 and is not returned.
C13_TagsAreTerms ==
    Answered =>
        \A u \in Pool :
            SharedTags(resp.user, u) = {} =>
                IsZero(SimilarityOf(u)) /\ u \notin Returned

\* C14: friendship is symmetric in every reachable state, whatever requests
\* were accepted, friends removed and accounts deleted: a is in b's friend
\* list exactly when b is in a's, so the filter, which reads the requester's
\* list only, returns nobody who has the requester in their list.
C14_FriendsSymmetric ==
    /\ \A a \in UserIds : \A b \in UserIds : <<a, b>> \in friends <=> <<b, a>> \in friends
    /\ \A a \in users : \A b \in users : is_friend(a, b) <=> is_friend(b, a)
    /\ resp.op = "get_friend_suggestions" =>
           \A u \in Returned : <<u, resp.user>> \notin friends

\* two users are friends, and a user who signed up after an account was
\* deleted (the default tags tell) is on no row of table friends
C14_Witness ==
    /\ users = UserIds
    /\ \E a \in users : \E b \in users : \E c \in users :
        /\ <<a, b>> \in friends
        /\ NoTags(c)
        /\ RowsOf(friends, c) = {}

\* thread t ends its call of get_friend_suggestions in this step
EndsCall(t) ==
    /\ threads[t].op = "get_friend_suggestions"
    /\ threads[t].pc = "vectors"
    /\ threads'[t].pc = "idle"

\* thread t commits its dismissal in this step
CommitsDismissal(t) ==
    /\ threads[t].op = "remove_friend_suggestion"
    /\ threads[t].pc = "commit"
    /\ threads'[t].pc = "idle"

\* the pools of the stores that existed while the call of thread t ran: those
\* replaced during the call and the one it ends in
PoolsDuringCall(t) == threads[t].pools \cup {NonFriends(threads[t].user)}

\* C15: writes are atomic relative to a concurrent eligibility check: the
\* pool a call of get_friend_suggestions uses is the eligible set of one
\* store that existed during the call, and a user it returns was eligible in
\* one of those stores (a user excluded in all of them is not returned).
C15_PoolOfOneStore ==
    [][\A t \in ThreadIds :
          EndsCall(t) =>
              /\ threads[t].non_friends \in PoolsDuringCall(t)
              /\ \A i \in 1..Len(resp'.body) :
                     \E pool \in PoolsDuringCall(t) : resp'.body[i].id \in Range(pool)]_vars

\* C16: a dismissal that the database serves succeeds and leaves the
\* dismissal recorded, also when another request dismisses the same user for
\* the same requester at the same time: none ends in 'Database error'.
C16_ConcurrentDismissals ==
    [][\A t \in ThreadIds :
          (CommitsDismissal(t) /\ threads[t].db_ok) =>
              /\ resp'.code = 200
              /\ <<threads[t].user, threads[t].arg>> \in dismissed']_vars

\* C17: get_friend_suggestions has no side effect: a call, answered with a
\* list or with the error, leaves users, tags, friends, friend requests and
\* dismissals as they are.
C17_NoSideEffects == [][resp'.op = "get_friend_suggestions" => store' = store]_vars

\* a call ended in the error in a store that has friends and a dismissal
C17_Witness ==
    /\ resp.op = "get_friend_suggestions"
    /\ resp.code = 500
    /\ friends # {}
    /\ dismissed # {}

CallDocuments ==
    List([i \in 1..(1 + Len(resp.non_friends)) |->
        JoinSpace(tags[(<<resp.user>> \o resp.non_friends)[i]].items)])

\* C19: the vectorizer is fitted on the tags of the requester and of the
\* eligible candidates and on nothing else: the pool of a call is the users
\* not excluded for the requester, and its similarities are those of the tag
\* strings of requester and pool, so the tags of an excluded user, whatever
\* they are changed to, have no part in the result.
C19_ExcludedTagsIgnored ==
    (Answered /\ resp.vectorized) =>
        /\ Pool = {u \in users \ {resp.user} : ~ExcludedFor(resp.user, u)}
        /\ resp.similarities = CosineSimilarity(FitTransform(CallDocuments).matrix)

\* a list is returned to a requester for whom a user is excluded whose tags
\* are not the requester's
C19_Witness ==
    /\ Answered
    /\ Returned # {}
    /\ \E x \in users \ {resp.user} :
        /\ ExcludedFor(resp.user, x)
        /\ tags[x] # tags[resp.user]

\* no user of the list us has a tag with a term in it
NoTerms(us) ==
    \A i \in 1..Len(us) : Tokenize(JoinSpace(tags[us[i]].items)) = <<>>

\* C20: a failure is answered as an error, never as the empty list. A call of
\* get_friend_suggestions that the database does not serve, or whose pool
\* has no term for the vectorizer, is answered with the error and not with a
\* list. A dismissal whose write fails, refused by the database or by the
\* primary key, is answered with the error and adds no row.
C20_FailuresAreErrors ==
    [][/\ \A t \in ThreadIds : \A u \in users :
            get_friend_suggestions_begin(t, u, FALSE) =>
                resp'.op = "get_friend_suggestions" /\ resp'.code = 500
       /\ \A t \in ThreadIds :
            (/\ EndsCall(t)
             /\ threads[t].non_friends # <<>>
             /\ NoTerms(<<threads[t].user>> \o threads[t].non_friends)) =>
                resp'.op = "get_friend_suggestions" /\ resp'.code = 500
       /\ \A t \in ThreadIds :
            (/\ CommitsDismissal(t)
             /\ ~threads[t].seen
             /\ ~threads[t].db_ok \/ <<threads[t].user, threads[t].arg>> \in dismissed) =>
                /\ resp'.op = "remove_friend_suggestion"
                /\ resp'.code = 500
                /\ dismissed' = dismissed]_vars

\* a dismissal was answered with the error and no dismissal is recorded
C20_Witness ==
    /\ resp.op = "remove_friend_suggestion"
    /\ resp.code = 500
    /\ dismissed = {}

\* C21: a dismissal of an id no user has is answered 404 and writes nothing;
\* a request with the session of a deleted account is answered 401 by
\* get_friend_suggestions and by remove_friend_suggestion, and writes nothing.
C21_NotFound ==
    [][\A s \in UserIds :
          /\ (resp'.op = "get_friend_suggestions" /\ s \notin users
                /\ get_friend_suggestions_request(s)) =>
                 resp'.code = 401 /\ store' = store
          /\ \A v \in UserIds :
                (resp'.op = "remove_friend_suggestion"
                   /\ remove_friend_suggestion_request(s, v)) =>
                    /\ s \notin users => resp'.code = 401 /\ store' = store
                    /\ s \in users /\ v \notin users =>
                           resp'.code = 404 /\ store' = store]_vars

\* the dismissal of a deleted user was answered 404 in a store that holds
\* dismissals
C21_Witness ==
    /\ resp.op = "remove_friend_suggestion"
    /\ resp.code = 404
    /\ users # UserIds
    /\ dismissed # {}

\* C22: a request without a session is answered with an error by
\* get_friend_suggestions and by remove_friend_suggestion: no list, no
\* dismissal, no success.
C22_Unauthenticated ==
    [][/\ (resp'.op = "get_friend_suggestions"
             /\ get_friend_suggestions_request(0)) =>
              resp'.code = 401 /\ resp'.body = <<>> /\ store' = store
       /\ \A v \in UserIds :
             (resp'.op = "remove_friend_suggestion"
                /\ remove_friend_suggestion_request(0, v)) =>
                 resp'.code >= 400 /\ store' = store]_vars

\* C23: every record of a returned list has the fields id, name and email,
\* and no other, of a user of the pool of the call, and no user is in the
\* list twice.
C23_IdentityFieldsOnly ==
    Answered =>
        /\ \A i \in 1..Len(resp.body) :
              /\ DOMAIN resp.body[i] = {"id", "name", "email"}
              /\ resp.body[i].id \in Pool
              /\ ~ExcludedFor(resp.user, resp.body[i].id)
              /\ resp.body[i].name = UserName(resp.body[i].id)
              /\ resp.body[i].email = UserEmail(resp.body[i].id)
        /\ \A i, j \in 1..Len(resp.body) :
              resp.body[i].id = resp.body[j].id => i = j

\* a list of two users was returned in a store with a handled request
C23_Witness ==
    /\ Answered
    /\ Len(resp.body) = 2
    /\ requests # <<>>

\* a request between r and u goes from pending to rejected in the step
RejectedBetween(r, u) ==
    \E i \in DOMAIN requests :
        /\ {requests[i].sender_id, requests[i].receiver_id} = {r, u}
        /\ requests[i].status = "pending"
        /\ requests'[i].status = "rejected"

\* r and u are friends before the step and not after it
UnfriendedBetween(r, u) == <<r, u>> \in friends /\ <<r, u>> \notin friends'

\* C24: only a dismissal excludes for good. Once a pending request between
\* r and u is rejected, or r and u unfriend, u is in the eligible pool of
\* r's next call unless r has dismissed u (or the two are friends).
C24_ExclusionNotPermanent ==
    [][\A r \in users : \A u \in users \ {r} :
          (/\ RejectedBetween(r, u) \/ UnfriendedBetween(r, u)
           /\ <<r, u>> \notin dismissed'
           /\ <<r, u>> \notin friends') =>
              u \in Range(NonFriends(r))']_vars

\* C25: a friend request is handled once. A request that is accepted or
\* rejected is changed by no step, so it keeps its status, and a rejected
\* request is never accepted, which is the one way it makes friends.
C25_HandledOnce ==
    [][\A i \in DOMAIN requests :
          requests[i].status # "pending" => requests'[i] = requests[i]]_vars

\* C26: no two friends have a pending friend request between them, in
\* either direction.
C26_NoPendingBetweenFriends ==
    \A a \in users, b \in users :
        <<a, b>> \in friends => ~PendingRow(a, b) /\ ~PendingRow(b, a)

\* C28: only its receiver handles a friend request. A call of any other
\* user is answered 404 and changes nothing, and two users become friends
\* only in the step in which the receiver of a request between them accepts
\* it.
C28_OnlyReceiverHandles ==
    [][/\ \A u \in UserIds, i \in DOMAIN requests, a \in {"accept", "reject"} :
             (resp'.op = "handle_friend_request"
                /\ requests[i].receiver_id # u
                /\ handle_friend_request(u, i, a)) =>
                 resp'.code = 404 /\ store' = store
       /\ \A a \in users, b \in users :
             <<a, b>> \in friends' /\ <<a, b>> \notin friends =>
                 \E i \in DOMAIN requests :
                     /\ {requests[i].sender_id, requests[i].receiver_id} = {a, b}
                     /\ requests'[i].status = "accepted"
                     /\ handle_friend_request(requests[i].receiver_id, i, "accept")]_vars

\* a call for a pending request was answered 404: the caller was not its
\* receiver
C28_Witness ==
    /\ resp.op = "handle_friend_request"
    /\ resp.code = 404
    /\ Len(requests) = MaxRequests
    /\ \E i \in DOMAIN requests : requests[i].status = "pending"

\* C27: no two pending friend requests have the same sender and the same
\* receiver, also when one sender sends twice at the same time, and no
\* request is from a user to that user.
C27_OnePendingPerPair ==
    /\ \A i \in DOMAIN requests, j \in DOMAIN requests :
          requests[i].status = "pending" /\ requests[j] = requests[i] => i = j
    /\ \A i \in DOMAIN requests : requests[i].sender_id # requests[i].receiver_id

RECURSIVE CompletedPoints(_, _)
CompletedPoints(u, i) ==
    IF i = 0 THEN 0
    ELSE CompletedPoints(u, i - 1)
         + (IF goals[i].user_id = u /\ goals[i].status = "completed"
            THEN goals[i].points ELSE 0)

\* C30: the points of a goal are awarded once. The points of a user are the
\* sum of the points of the goals the user has completed, also while two
\* complete_goal requests run at the same time, and a completed goal is
\* changed by no request.
C30_PointsAwardedOnce ==
    /\ [](\A u \in users : points[u] = CompletedPoints(u, Len(goals)))
    /\ [][\A g \in DOMAIN goals :
             goals[g].status = "completed" => goals'[g] = goals[g]]_vars

====
